---- MODULE Spec2Model ----
\* The task lifecycle engine of xthreen/upgraded-guide: the TaskQueue registry
\* (src/src/app/task_queue.rs) and the reference SleepTask
\* (src/src/app/sleep_task.rs), with its spawned background timer, the
\* completion-wait observer of _get_task, and the callers' threads.
EXTENDS Integers, Sequences, FiniteSets, TLC

\* ------------------------------------------------------------------ bounds
\* Registrations per registry (next_id never exceeds it).
MaxTasks == 3
\* The clock stops advancing here once no timer is still sleeping.
MaxTime == 2
\* Background operations spawned, over all tasks (the guard of a Queued poll).
MaxSpawns == 2
\* Completion-wait observers started by _get_task.
MaxObservers == 1

\* Durations a SleepTask is constructed with, in clock ticks.
Durations == {0, 2}
\* The callers of the registry.
Threads == {"t1", "t2"}

\* No holder of a mutex.
NoOne == "none"
\* Option::None for start_time, whose instants are ticks >= 0.
None == -1

VARIABLES
    now,              \* Instant::now(), in ticks
    next_id,          \* TaskQueue.next_id
    tasks,            \* keys of TaskQueue.tasks
    tasks_lock,       \* holder of the TaskQueue.tasks mutex
    tasks_poisoned,   \* the TaskQueue.tasks mutex is poisoned
    task_lock,        \* per task: holder of the Arc<Mutex<dyn Task>> mutex
    poisoned,         \* per task: which of its mutexes are poisoned
    duration,         \* per task: SleepTask.duration
    status,           \* per task: SleepTask.status
    start_time,       \* per task: SleepTask.start_time (None or an instant)
    paused_duration,  \* per task: SleepTask.paused_duration
    bg,               \* per task: the background operations spawned by poll
    th,               \* per thread: position in a registry call, its locals
    obs,              \* the observers spawned by _get_task, with their channel
    issued,           \* history: the identities add_task returned, in order
    last,             \* history: the latest completed call on a task
    done,             \* history: the calls of the scenario's script completed
    reported,         \* history: per task, the progress its latest poll reported
    scenario          \* what the callers do at most (fixed by Init)

vars == <<now, next_id, tasks, tasks_lock, tasks_poisoned, task_lock, poisoned,
          duration, status, start_time, paused_duration, bg, th, obs,
          issued, last, done, reported, scenario>>

objVars == <<duration, status, start_time, paused_duration>>
lockVars == <<tasks_lock, tasks_poisoned, task_lock, poisoned>>
histVars == <<issued, last, done, reported, scenario>>

\* ------------------------------------------------------------------ values
Terminal == {"Completed", "Cancelled"}
Created == DOMAIN status

\* f32 values: a normalised fraction, or the two specials a division by a zero
\* duration produces.
NaN == [num |-> 0, den |-> 0]
Inf == [num |-> 1, den |-> 0]

RECURSIVE Gcd(_, _)
Gcd(a, b) ==
    IF b = 0 THEN a ELSE Gcd(b, a % b)

Frac(n, d) ==
    IF n = 0 THEN [num |-> 0, den |-> 1]
    ELSE [num |-> n \div Gcd(n, d), den |-> d \div Gcd(n, d)]

Zero == Frac(0, 1)
One == Frac(1, 1)

\* a.as_secs_f32() / b.as_secs_f32() for durations a, b >= 0
F32Div(a, b) ==
    IF b = 0 THEN (IF a = 0 THEN NaN ELSE Inf) ELSE Frac(a, b)

\* x >= 1.0 (false for NaN)
F32Ge1(x) ==
    IF x = NaN THEN FALSE
    ELSE IF x = Inf THEN TRUE
    ELSE x.num >= x.den

\* x.min(1.0) left out
F32NoClamp(x) == x

\* x.min(1.0): f32::min returns the other operand when one is NaN
F32Min1(x) ==
    IF x = NaN THEN One
    ELSE IF F32Ge1(x) THEN One
    ELSE x

Pending(p) == [kind |-> "Pending", progress |-> p]
PausedOut(p) == [kind |-> "Paused", progress |-> p]
CompletedOut == [kind |-> "Completed", progress |-> Zero]
CancelledOut == [kind |-> "Cancelled", progress |-> Zero]
\* Result<(), TaskError> values, in the shape of an outcome
Ret(k) == [kind |-> k, progress |-> Zero]

\* A thread that is not running.
Off == [pc |-> "off", op |-> "none", id |-> 0, st |-> "none"]

\* A thread between two registry calls.
Idle == [pc |-> "idle", op |-> "none", id |-> 0, st |-> "none"]

\* ------------------------------------------------------------------ SleepTask
\* SleepTask::new: the fields of a task constructed with duration d under key id
NewTask(id, d) ==
    /\ duration' = (id :> d) @@ duration
    /\ status' = (id :> "Queued") @@ status
    /\ start_time' = (id :> None) @@ start_time
    /\ paused_duration' = (id :> 0) @@ paused_duration
    /\ bg' = (id :> <<>>) @@ bg
    /\ task_lock' = (id :> NoOne) @@ task_lock
    /\ poisoned' = (id :> {}) @@ poisoned

\* The async block poll spawns, before its first step. Its JoinHandle is kept in
\* SleepTask.handle; a JoinHandle that is overwritten or dropped detaches its
\* operation, which keeps running.
Spawned == [pc |-> "set_running", wake |-> None]

\* Whether a poll that read status st spawns a background operation.
Spawns(st) == st = "Queued"

RECURSIVE SpawnedIn(_)
SpawnedIn(S) ==
    IF S = {} THEN 0
    ELSE LET id == CHOOSE x \in S : TRUE
         IN  Len(bg[id]) + SpawnedIn(S \ {id})

\* The background operations spawned so far.
TotalSpawned == SpawnedIn(DOMAIN bg)

\* elapsed_time of the Running branch with a banked paused_duration
ElapsedBanked(id) == (now - start_time[id]) + paused_duration[id]

\* The PollResult of SleepTask::poll for a poll that read status st.
PollOutcome(id, st) ==
    CASE st = "Queued" -> Pending(Zero)
      [] st = "Running" ->
            IF start_time[id] # None
            THEN IF paused_duration[id] > 0
                 THEN IF F32Ge1(F32Div(ElapsedBanked(id), duration[id]))
                      THEN CompletedOut
                      ELSE Pending(F32Min1(F32Div(ElapsedBanked(id), duration[id])))
                 ELSE Pending(F32Min1(F32Div(now - start_time[id], duration[id])))
            ELSE Pending(Zero)
      [] st = "Paused" ->
            PausedOut(F32Min1(F32Div(paused_duration[id], duration[id])))
      [] st = "Completed" -> CompletedOut
      [] st = "Cancelled" -> CancelledOut

\* SleepTask::poll panics where it unwraps the lock of a poisoned mutex.
PollPanics(id, st) == st = "Running" /\ "start_time" \in poisoned[id]

\* The Result of cancel, pause and resume for a call that read status st.
CancelResult(st) ==
    CASE st \in {"Queued", "Running", "Paused"} -> Ret("Ok")
      [] st = "Completed" -> Ret("AlreadyCompleted")
      [] st = "Cancelled" -> Ret("AlreadyCancelled")

PauseResult(st) ==
    CASE st \in {"Queued", "Running"} -> Ret("Ok")
      [] st = "Paused" -> Ret("AlreadyPaused")
      [] st = "Completed" -> Ret("AlreadyCompleted")
      [] st = "Cancelled" -> Ret("AlreadyCancelled")

ResumeResult(st) ==
    CASE st = "Queued" -> Ret("NotFound")
      [] st = "Running" -> Ret("AlreadyRunning")
      [] st = "Paused" -> Ret("Ok")
      [] st = "Completed" -> Ret("AlreadyCompleted")
      [] st = "Cancelled" -> Ret("AlreadyCancelled")

\* --------------------------------------------- the spawned background operation
\* What the operation writes to the shared status when it starts.
BgStartStatus(s) == "Running"

\* the timer's result is written whatever the status is
BgDoneAlways(s) == "Completed"

\* What the operation writes to the shared status when its sleep is over.
BgDoneStatus(s) ==
    IF s = "Running" THEN "Completed" ELSE s

\* *status_guard = TaskStatus::Running
BgSetRunning(id, i) ==
    /\ bg[id][i].pc = "set_running"
    /\ status' = [status EXCEPT ![id] = BgStartStatus(@)]
    /\ bg' = [bg EXCEPT ![id][i].pc = "set_start"]
    /\ UNCHANGED <<now, next_id, tasks, lockVars, duration, start_time,
                   paused_duration, th, obs, histVars>>

\* *start_time_guard = Some(Instant::now()); then task::sleep(duration) begins
BgSetStart(id, i) ==
    /\ bg[id][i].pc = "set_start"
    /\ IF "start_time" \in poisoned[id]
       THEN /\ bg' = [bg EXCEPT ![id][i].pc = "panicked"]
            /\ UNCHANGED start_time
       ELSE /\ start_time' = [start_time EXCEPT ![id] = now]
            /\ bg' = [bg EXCEPT ![id][i] = [pc |-> "sleep", wake |-> now + duration[id]]]
    /\ UNCHANGED <<now, next_id, tasks, lockVars, duration, status,
                   paused_duration, th, obs, histVars>>

\* task::sleep(duration) is over: the match on the shared status
BgWake(id, i) ==
    /\ bg[id][i].pc = "sleep"
    /\ now >= bg[id][i].wake
    /\ status' = [status EXCEPT ![id] = BgDoneStatus(@)]
    /\ bg' = [bg EXCEPT ![id][i].pc = "done"]
    /\ UNCHANGED <<now, next_id, tasks, lockVars, duration, start_time,
                   paused_duration, th, obs, histVars>>

Background ==
    \E id \in Created : \E i \in DOMAIN bg[id] :
        BgSetRunning(id, i) \/ BgSetStart(id, i) \/ BgWake(id, i)

\* A timer is still sleeping towards a deadline in the future.
TimerPending ==
    \E id \in Created : \E i \in DOMAIN bg[id] :
        bg[id][i].pc = "sleep" /\ bg[id][i].wake > now

\* The clock advances for as long as a timer is waiting for it.
TickLive ==
    /\ now < MaxTime \/ TimerPending
    /\ now' = now + 1
    /\ UNCHANGED <<next_id, tasks, lockVars, objVars, bg, th, obs, histVars>>

\* The clock advances.
Tick ==
    /\ now < MaxTime
    /\ now' = now + 1
    /\ UNCHANGED <<next_id, tasks, lockVars, objVars, bg, th, obs, histVars>>

\* ------------------------------------------------------------------ callers
Ids == 0 .. (MaxTasks - 1)
\* pause_task, resume_task and cancel_task, which the tests and the UI call and
\* the files of the registry do not hold: the registry locks its map for the
\* lookup only, and delegates to the task's method under the task's own lock.
Delegated == {"pause", "resume", "cancel"}

LifecycleOps == {"poll"} \cup Delegated

\* The mutexes thread (or observer) w holds are released.
Unlock(w) ==
    /\ tasks_lock' = IF tasks_lock = w THEN NoOne ELSE tasks_lock
    /\ task_lock' = [i \in DOMAIN task_lock |->
                        IF task_lock[i] = w THEN NoOne ELSE task_lock[i]]

\* A panic unwinds w: every MutexGuard it holds is dropped while panicking,
\* which poisons that mutex; more names the mutexes of task id it holds inside
\* the task.
Unwind(w, id, more) ==
    /\ Unlock(w)
    /\ tasks_poisoned' = (tasks_poisoned \/ tasks_lock = w)
    /\ poisoned' = [i \in DOMAIN poisoned |->
                        poisoned[i]
                        \cup (IF task_lock[i] = w THEN {"task"} ELSE {})
                        \cup (IF i = id THEN more ELSE {})]

Panic(t, more) ==
    /\ Unwind(t, th[t].id, more)
    /\ th' = [th EXCEPT ![t].pc = "panicked"]

\* self.tasks.lock().unwrap() panics at the entry of call op on identity id:
\* the thread holds no guard yet.
PanicAtEntry(t, op, id) ==
    /\ Unwind(t, id, {})
    /\ th' = [th EXCEPT ![t] = [Idle EXCEPT !.pc = "panicked", !.op = op, !.id = id]]

\* The call of thread t returns: its guards are dropped.
Finish(t) ==
    /\ Unlock(t)
    /\ UNCHANGED <<tasks_poisoned, poisoned>>
    /\ th' = [th EXCEPT ![t] = Idle]

\* What the history keeps of a completed call op on task id that returned r.
Event(id, op, r) ==
    IF op = "pause" /\ r.kind = "Ok" THEN [id |-> id, ev |-> "pause_ok"]
    ELSE IF op = "cancel" /\ r.kind = "Ok" THEN [id |-> id, ev |-> "cancel_ok"]
    ELSE IF op = "poll" /\ r.kind = "Completed" THEN [id |-> id, ev |-> "poll_completed"]
    ELSE IF op = "poll" /\ r.kind = "Cancelled" THEN [id |-> id, ev |-> "poll_cancelled"]
    ELSE [id |-> 0, ev |-> "other"]

\* Whether r is what the scripted call in turn is expected to return: its kind
\* and, for a Paused outcome, a progress strictly between 0.0 and 1.0.
Expected(r) ==
    /\ r.kind = scenario.script[done + 1].expect
    /\ r.kind = "Paused" => (0 < r.progress.num /\ r.progress.num < r.progress.den)

\* The script's position after a call that returned r: one further, or past the
\* end when the call did not return what the script expects (its assertion
\* fails). Callers with no script are free.
DoneAfter(r) ==
    IF scenario.script = <<>> THEN done
    ELSE IF Expected(r) THEN done + 1
    ELSE Len(scenario.script) + 1

\* Whether the callers' scenario lets call op on identity id be made now.
Allowed(op, id) ==
    \/ scenario.script = <<>>
    \/ /\ done < Len(scenario.script)
       /\ scenario.script[done + 1].op = op
       /\ scenario.script[done + 1].at = now
       /\ id = 0

\* The progress reports kept after a call on task id returned r: the progress
\* of a Pending or Paused outcome, in the scenarios that compare reports.
Reported(id, r) ==
    IF scenario.track /\ r.kind \in {"Pending", "Paused"}
    THEN (id :> r.progress) @@ reported
    ELSE reported

\* The history after a call op on task id that returned r.
Record(id, op, r) ==
    /\ last' = Event(id, op, r)
    /\ done' = DoneAfter(r)
    /\ reported' = Reported(id, r)
    /\ UNCHANGED <<issued, scenario>>

\* The identity taken from the size of the map
AssignIdFromLen == Cardinality(tasks)

\* The identity add_task hands out: next_id.fetch_add(1, SeqCst)
AssignId == next_id

\* TaskQueue::add_task, first half: the caller has constructed the task with
\* duration d; the atomic fetch_add assigns its identity.
AddTaskFetch(t, d) ==
    /\ th[t].pc = "idle"
    /\ next_id < scenario.tasks
    /\ d \in scenario.durations
    /\ next_id' = next_id + 1
    /\ NewTask(AssignId, d)
    /\ issued' = Append(issued, AssignId)
    /\ UNCHANGED <<last, done, reported, scenario>>
    /\ th' = [th EXCEPT ![t] = [Idle EXCEPT !.pc = "insert", !.op = "add_task",
                                             !.id = AssignId]]
    /\ UNCHANGED <<now, tasks, tasks_lock, tasks_poisoned, obs>>

\* TaskQueue::add_task, second half: lock the map, insert, return the identity.
AddTaskInsert(t) ==
    /\ th[t].pc = "insert"
    /\ tasks_lock = NoOne
    /\ IF tasks_poisoned
       THEN /\ Panic(t, {})
            /\ UNCHANGED tasks
       ELSE /\ tasks' = tasks \cup {th[t].id}
            /\ Finish(t)
    /\ UNCHANGED <<now, next_id, objVars, bg, obs, histVars>>

\* the map is emptied
MapCleared(m, id) == {}

\* The keys of the map after remove(&id)
MapAfterRemove(m, id) == m \ {id}

\* TaskQueue::_remove_task
RemoveTask(t, id) ==
    /\ th[t].pc = "idle"
    /\ tasks_lock = NoOne
    /\ IF tasks_poisoned
       THEN /\ PanicAtEntry(t, "remove", id)
            /\ UNCHANGED tasks
       ELSE /\ tasks' = MapAfterRemove(tasks, id)
            /\ UNCHANGED <<th, lockVars>>
    /\ UNCHANGED <<now, next_id, objVars, bg, obs, histVars>>

\* Whether a registry call keeps the map's MutexGuard while it runs the task's
\* method: poll_task's guard is a temporary of the match scrutinee, which
\* lives to the end of the match.
HoldsMapLock(op) == op \notin Delegated

\* TaskQueue::poll_task (and pause_task, resume_task, cancel_task), the lookup:
\* lock the map, get the task or return NotFound.
Call(t, op, id) ==
    /\ th[t].pc = "idle"
    /\ Allowed(op, id)
    /\ tasks_lock = NoOne
    /\ IF tasks_poisoned
       THEN PanicAtEntry(t, op, id)
       ELSE /\ th' = [th EXCEPT ![t] =
                        IF id \in tasks
                        THEN [Idle EXCEPT !.pc = "lock_task", !.op = op, !.id = id]
                        ELSE Idle]
            /\ tasks_lock' = IF id \in tasks /\ HoldsMapLock(op) THEN t ELSE NoOne
            /\ UNCHANGED <<tasks_poisoned, task_lock, poisoned>>
    /\ UNCHANGED <<now, next_id, tasks, objVars, bg, obs, histVars>>

\* the per-task mutex lets every caller in
TaskLockIgnored(id) == TRUE

\* Mutex::lock on a task's Arc<Mutex<dyn Task>> blocks while another holds it.
TaskLockFree(id) == task_lock[id] = NoOne

\* task.lock().unwrap()
LockTask(t) ==
    /\ th[t].pc = "lock_task"
    /\ TaskLockFree(th[t].id)
    /\ IF "task" \in poisoned[th[t].id]
       THEN Panic(t, {})
       ELSE /\ task_lock' = [task_lock EXCEPT ![th[t].id] = t]
            /\ th' = [th EXCEPT ![t].pc = "read_status"]
            /\ UNCHANGED <<tasks_lock, tasks_poisoned, poisoned>>
    /\ UNCHANGED <<now, next_id, tasks, objVars, bg, obs, histVars>>

\* let status = self.status.lock().unwrap().clone(): the first statement of
\* poll, cancel, pause and resume
ReadStatus(t) ==
    /\ th[t].pc = "read_status"
    /\ (th[t].op = "poll" /\ Spawns(status[th[t].id])) => TotalSpawned < scenario.spawns
    /\ th' = [th EXCEPT ![t].pc = "body", ![t].st = status[th[t].id]]
    /\ UNCHANGED <<now, next_id, tasks, lockVars, objVars, bg, obs, histVars>>

\* SleepTask::poll, the match on the status read, under poll_task
PollBody(t) ==
    LET id == th[t].id
        st == th[t].st
    IN  /\ th[t].pc = "body"
        /\ th[t].op = "poll"
        /\ Spawns(st) => TotalSpawned < scenario.spawns
        /\ IF PollPanics(id, st)
           THEN /\ Panic(t, {})
                /\ UNCHANGED <<bg, histVars>>
           ELSE /\ bg' = IF Spawns(st) THEN [bg EXCEPT ![id] = Append(@, Spawned)]
                         ELSE bg
                /\ Finish(t)
                /\ Record(id, "poll", PollOutcome(id, st))
        /\ UNCHANGED <<now, next_id, tasks, objVars, obs>>

\* a field shared by every task
WrittenToAll(f, id, v) == [i \in DOMAIN f |-> v]

\* A write of v to a field of task id: each SleepTask has its own Arc<Mutex<..>>
\* for each of its fields.
Written(f, id, v) == [f EXCEPT ![id] = v]

\* cancel leaves the status as it is
CancelStatusKept(st, cur) == cur

\* The status cancel writes after it read st.
CancelStatus(st, cur) ==
    IF st \in {"Queued", "Running", "Paused"} THEN "Cancelled" ELSE cur

\* SleepTask::cancel, the match on the status read
CancelBody(t) ==
    LET id == th[t].id
        st == th[t].st
    IN  /\ th[t].pc = "body"
        /\ th[t].op = "cancel"
        /\ status' = Written(status, id, CancelStatus(st, status[id]))
        /\ Finish(t)
        /\ Record(id, "cancel", CancelResult(st))
        /\ UNCHANGED <<now, next_id, tasks, duration, start_time, paused_duration,
                       bg, obs>>

\* pause writes Paused on every branch
PauseStatusAlways(st, cur) == "Paused"

\* The status pause writes after it read st.
PauseStatus(st, cur) ==
    IF st \in {"Queued", "Running"} THEN "Paused" ELSE cur

\* SleepTask::pause, the match on the status read: the status write; the
\* Running branch goes on to bank the elapsed time.
PauseBody(t) ==
    LET id == th[t].id
        st == th[t].st
    IN  /\ th[t].pc = "body"
        /\ th[t].op = "pause"
        /\ status' = Written(status, id, PauseStatus(st, status[id]))
        /\ IF st = "Running"
           THEN /\ th' = [th EXCEPT ![t].pc = "pause_bank"]
                /\ UNCHANGED <<lockVars, histVars>>
           ELSE /\ Finish(t)
                /\ Record(id, "pause", PauseResult(st))
        /\ UNCHANGED <<now, next_id, tasks, duration, start_time, paused_duration,
                       bg, obs>>

\* paused_at.duration_since(start_time.unwrap())
BankedAtPause(id) == now - start_time[id]

\* SleepTask::pause, Running branch, second block: start_time.unwrap() panics
\* on None, with the start_time guard held; else paused_duration is set.
PauseBank(t) ==
    LET id == th[t].id
    IN  /\ th[t].pc = "pause_bank"
        /\ IF start_time[id] = None \/ "start_time" \in poisoned[id]
           THEN /\ Panic(t, {"start_time"})
                /\ UNCHANGED <<paused_duration, histVars>>
           ELSE /\ paused_duration' = Written(paused_duration, id, BankedAtPause(id))
                /\ Finish(t)
                /\ Record(id, "pause", Ret("Ok"))
        /\ UNCHANGED <<now, next_id, tasks, duration, status, start_time, bg, obs>>

\* resume leaves start_time as it is
StartKept(cur) == cur

\* *resume_time_guard = Some(Instant::now())
StartAtResume(cur) == now

\* SleepTask::resume, the match on the status read: the Paused branch sets
\* start_time and goes on to set the status.
ResumeBody(t) ==
    LET id == th[t].id
        st == th[t].st
    IN  /\ th[t].pc = "body"
        /\ th[t].op = "resume"
        /\ IF st = "Paused"
           THEN IF "start_time" \in poisoned[id]
                THEN /\ Panic(t, {})
                     /\ UNCHANGED <<start_time, histVars>>
                ELSE /\ start_time' = Written(start_time, id, StartAtResume(start_time[id]))
                     /\ th' = [th EXCEPT ![t].pc = "resume_set"]
                     /\ UNCHANGED <<lockVars, histVars>>
           ELSE /\ Finish(t)
                /\ Record(id, "resume", ResumeResult(st))
                /\ UNCHANGED start_time
        /\ UNCHANGED <<now, next_id, tasks, duration, status, paused_duration, bg, obs>>

\* SleepTask::resume, Paused branch, second block: *status_guard = Running
ResumeSet(t) ==
    LET id == th[t].id
    IN  /\ th[t].pc = "resume_set"
        /\ status' = Written(status, id, "Running")
        /\ Finish(t)
        /\ Record(id, "resume", Ret("Ok"))
        /\ UNCHANGED <<now, next_id, tasks, duration, start_time, paused_duration,
                       bg, obs>>

\* ------------------------------------------------------------------ _get_task
\* The name under which observer o holds a mutex.
ObsName(o) == "observer" \o ToString(o)

\* The async block _get_task spawns, with the channel made for it: sent counts
\* the messages put in the channel, rx is what the returned Receiver has seen.
NewObserver(id) ==
    [id |-> id, pc |-> "lock", st |-> "none", sent |-> 0, rx |-> "waiting"]

\* TaskQueue::_get_task: lock the map, get the task, spawn the observer and
\* return the receiver, or return NotFound.
GetTask(t, id) ==
    /\ th[t].pc = "idle"
    /\ tasks_lock = NoOne
    /\ id \in tasks => Len(obs) < scenario.observers
    /\ IF tasks_poisoned
       THEN /\ PanicAtEntry(t, "get_task", id)
            /\ UNCHANGED obs
       ELSE /\ obs' = IF id \in tasks THEN Append(obs, NewObserver(id)) ELSE obs
            /\ UNCHANGED <<th, lockVars>>
    /\ UNCHANGED <<now, next_id, tasks, objVars, bg, histVars>>

\* let mut guard = task_clone.lock().unwrap()
ObsLock(o) ==
    LET id == obs[o].id
    IN  /\ obs[o].pc = "lock"
        /\ TaskLockFree(id)
        /\ IF "task" \in poisoned[id]
           THEN /\ obs' = [obs EXCEPT ![o].pc = "panicked"]
                /\ UNCHANGED task_lock
           ELSE /\ obs' = [obs EXCEPT ![o].pc = "read_status"]
                /\ task_lock' = [task_lock EXCEPT ![id] = ObsName(o)]
        /\ UNCHANGED <<now, next_id, tasks, tasks_lock, tasks_poisoned, poisoned,
                       objVars, bg, th, histVars>>

\* guard.poll(), its first statement: the status is read
ObsReadStatus(o) ==
    /\ obs[o].pc = "read_status"
    /\ Spawns(status[obs[o].id]) => TotalSpawned < scenario.spawns
    /\ obs' = [obs EXCEPT ![o].pc = "body", ![o].st = status[obs[o].id]]
    /\ UNCHANGED <<now, next_id, tasks, lockVars, objVars, bg, th, histVars>>

\* Where the observer's loop goes on a poll result: continue or break.
ObsNext(r) ==
    IF r.kind \in {"Pending", "Paused"} THEN "read_status" ELSE "send"

\* guard.poll(), the match on the status read, and the loop's match on its result
ObsPoll(o) ==
    LET id == obs[o].id
        st == obs[o].st
    IN  /\ obs[o].pc = "body"
        /\ Spawns(st) => TotalSpawned < scenario.spawns
        /\ IF PollPanics(id, st)
           THEN /\ obs' = [obs EXCEPT ![o].pc = "panicked"]
                /\ Unwind(ObsName(o), id, {})
                /\ UNCHANGED <<bg, histVars>>
           ELSE /\ bg' = IF Spawns(st) THEN [bg EXCEPT ![id] = Append(@, Spawned)]
                         ELSE bg
                /\ obs' = [obs EXCEPT ![o].pc = ObsNext(PollOutcome(id, st))]
                /\ Record(id, "poll", PollOutcome(id, st))
                /\ UNCHANGED lockVars
        /\ UNCHANGED <<now, next_id, tasks, objVars, th>>

\* The messages in the channel after `let _ = tx_clone.send(())`: send only
\* builds a future, which is dropped without being awaited, so nothing is sent.
SentAfterSend(n) == n

\* After the loop: the send statement, then the block ends, dropping the guard
\* and the last Sender.
ObsSend(o) ==
    /\ obs[o].pc = "send"
    /\ obs' = [obs EXCEPT ![o].pc = "done", ![o].sent = SentAfterSend(@)]
    /\ Unlock(ObsName(o))
    /\ UNCHANGED <<now, next_id, tasks, tasks_poisoned, poisoned, objVars, bg, th,
                   histVars>>

\* Every Sender of observer o's channel is dropped (tx when _get_task returns,
\* tx_clone when the observer ends).
Closed(o) == obs[o].pc \in {"done", "panicked"}

\* rx.recv() resolves: with a message if one is in the channel, with an error
\* once the channel is closed and empty.
Recv(o) ==
    /\ obs[o].rx = "waiting"
    /\ obs[o].sent > 0 \/ Closed(o)
    /\ obs' = [obs EXCEPT ![o].rx = IF obs[o].sent > 0 THEN "message" ELSE "closed"]
    /\ UNCHANGED <<now, next_id, tasks, lockVars, objVars, bg, th, histVars>>

Observer ==
    \E o \in DOMAIN obs :
        ObsLock(o) \/ ObsReadStatus(o) \/ ObsPoll(o) \/ ObsSend(o) \/ Recv(o)

\* ------------------------------------------------------------------ Init

\* The state after TaskQueue::new(), with the threads of C calling the registry
\* as scenario sc allows.
InitWith(C, sc) ==
    /\ th = [t \in Threads |-> IF t \in C THEN Idle ELSE Off]
    /\ now = 0
    /\ next_id = 0
    /\ tasks = {}
    /\ tasks_lock = NoOne
    /\ tasks_poisoned = FALSE
    /\ task_lock = <<>>
    /\ poisoned = <<>>
    /\ duration = <<>>
    /\ status = <<>>
    /\ start_time = <<>>
    /\ paused_duration = <<>>
    /\ bg = <<>>
    /\ obs = <<>>
    /\ issued = <<>>
    /\ last = [id |-> 0, ev |-> "other"]
    /\ done = 0
    /\ reported = <<>>
    /\ scenario = sc

\* ------------------------------------------------------------------ Next
\* A thread starts a registry call.
Register ==
    \E t \in Threads : \E d \in Durations : AddTaskFetch(t, d)

Remove ==
    \E t \in Threads : \E id \in Ids : RemoveTask(t, id)

Lifecycle ==
    \E t \in Threads : \E id \in Ids : \E op \in LifecycleOps : Call(t, op, id)

\* A thread asks for a task's completion signal.
Wait ==
    \E t \in Threads : \E id \in Ids : GetTask(t, id)

\* A thread takes the next step of the call it is in.
Continue ==
    \E t \in Threads :
        \/ AddTaskInsert(t)
        \/ LockTask(t)
        \/ ReadStatus(t)
        \/ PollBody(t)
        \/ CancelBody(t)
        \/ PauseBody(t)
        \/ PauseBank(t)
        \/ ResumeBody(t)
        \/ ResumeSet(t)

\* The lifecycle engine: registration, removal, poll, pause, resume, cancel
\* and the background timers.
Next ==
    \/ Register
    \/ Remove
    \/ Lifecycle
    \/ Continue
    \/ Background
    \/ Tick

\* A scenario: how many tasks are registered, with which durations, how many
\* background operations are spawned and how many observers are started; its
\* callers follow no script and compare no progress reports.
Scenario(n, D, s, o) ==
    [tasks |-> n, durations |-> D, spawns |-> s, observers |-> o, script |-> <<>>,
     track |-> FALSE]

\* The life of one task under one driving thread, as in the application's
\* update loop.
Init == InitWith({"t1"}, Scenario(1, Durations, MaxSpawns, 0))

Spec == Init /\ [][Next]_vars

\* Registration, removal and polls alone.
Polls ==
    \E t \in Threads : \E id \in Ids : Call(t, "poll", id)

PollSteps ==
    \E t \in Threads :
        \/ AddTaskInsert(t)
        \/ LockTask(t)
        \/ ReadStatus(t)
        \/ PollBody(t)

NextPoll ==
    \/ Register
    \/ Remove
    \/ Polls
    \/ PollSteps
    \/ Background
    \/ Tick

PollSpec == Init /\ [][NextPoll]_vars

\* Registration, removal and polls of two tasks.
RemoveInit == InitWith({"t1"}, Scenario(2, {2}, MaxSpawns, 0))

RemoveSpec == RemoveInit /\ [][NextPoll]_vars

\* The lifecycle of two tasks of no duration, at one instant.
FrameInit == InitWith({"t1"}, Scenario(2, {0}, MaxSpawns, 0))

NextFrame ==
    \/ Register
    \/ Lifecycle
    \/ Continue
    \/ Background

FrameSpec == FrameInit /\ [][NextFrame]_vars

\* The registry with two tasks.
RegistryInit == InitWith({"t1"}, Scenario(2, {2}, 1, 0))

RegistrySpec == RegistryInit /\ [][Next]_vars

\* Registration and removal alone, from two threads.
IdInit == InitWith(Threads, Scenario(MaxTasks, Durations, 0, 0))

NextIds ==
    \/ Register
    \/ Remove
    \/ \E t \in Threads : AddTaskInsert(t)

IdSpec == IdInit /\ [][NextIds]_vars

\* Registration alone, from two threads at once.
NextRegister ==
    \/ Register
    \/ \E t \in Threads : AddTaskInsert(t)

RegisterSpec == IdInit /\ [][NextRegister]_vars

\* Registration, removal and polls with the completion-wait primitive of
\* _get_task.
WaitInit == InitWith({"t1"}, Scenario(1, {2}, 1, MaxObservers))

NextWait ==
    \/ Register
    \/ Remove
    \/ Polls
    \/ Wait
    \/ PollSteps
    \/ Background
    \/ Observer
    \/ Tick

WaitSpec == WaitInit /\ [][NextWait]_vars

\* Scheduling: the executor runs every spawned operation and observer, timers
\* fire, and a thread inside a call goes on; callers are free to stop calling.
\* The task stays registered.
LiveInit == InitWith({"t1"}, Scenario(1, {2}, 1, 0))

NextLive ==
    \/ Register
    \/ Lifecycle
    \/ Continue
    \/ Background
    \/ TickLive

FairSpec ==
    /\ LiveInit
    /\ [][NextLive]_vars
    /\ WF_vars(Continue)
    /\ WF_vars(Background)
    /\ WF_vars(TickLive)

NextLiveWait ==
    \/ Register
    \/ Lifecycle
    \/ Wait
    \/ Continue
    \/ Background
    \/ Observer
    \/ TickLive

FairWaitSpec ==
    /\ WaitInit
    /\ [][NextLiveWait]_vars
    /\ WF_vars(Continue)
    /\ WF_vars(Background)
    /\ WF_vars(TickLive)
    /\ \A o \in 1 .. MaxObservers :
          /\ WF_vars(o \in DOMAIN obs /\ (ObsLock(o) \/ ObsReadStatus(o) \/ ObsPoll(o) \/ ObsSend(o)))
          /\ WF_vars(o \in DOMAIN obs /\ Recv(o))

\* The life of one task with one background operation.
LifeSpec == LiveInit /\ [][Next]_vars

\* A task that is registered and polled, never paused, resumed, cancelled or
\* removed, under the scheduling of FairSpec.
NextLivePoll ==
    \/ Register
    \/ Polls
    \/ PollSteps
    \/ Background
    \/ TickLive

FairPollSpec ==
    /\ Init
    /\ [][NextLivePoll]_vars
    /\ WF_vars(PollSteps)
    /\ WF_vars(Background)
    /\ WF_vars(TickLive)

\* test_pause_and_resume, in ticks of 100 ms: the duration of its task, and its
\* calls with the instant each is made at and what the test expects of it.
TestDuration == 5

TestCall(op, at, expect) == [op |-> op, at |-> at, expect |-> expect]

TestScript ==
    << TestCall("poll", 0, "Pending"),
       TestCall("pause", 1, "Ok"),
       TestCall("poll", 1, "Paused"),
       TestCall("poll", 2, "Paused"),
       TestCall("resume", 2, "Ok"),
       TestCall("poll", 5, "Completed") >>

ScriptInit ==
    InitWith({"t1"}, [Scenario(1, {TestDuration}, 1, 0) EXCEPT !.script = TestScript])

\* The steps of the calls the script makes.
ScriptSteps ==
    \E t \in Threads :
        \/ AddTaskInsert(t)
        \/ LockTask(t)
        \/ ReadStatus(t)
        \/ PollBody(t)
        \/ PauseBody(t)
        \/ PauseBank(t)
        \/ ResumeBody(t)
        \/ ResumeSet(t)

NextScript ==
    \/ \E t \in Threads : AddTaskFetch(t, TestDuration)
    \/ Lifecycle
    \/ ScriptSteps
    \/ Background
    \/ TickLive

ScriptSpec == ScriptInit /\ [][NextScript]_vars

\* Another thread of the process calls the registry after a caller's thread
\* has died of a panic.
NewCaller ==
    \E t \in Threads :
        /\ th[t].pc = "panicked"
        /\ th' = [th EXCEPT ![t] = Idle]
        /\ UNCHANGED <<now, next_id, tasks, lockVars, objVars, bg, obs, histVars>>

\* The engine with callers that go on after a panic, and the completion-wait
\* primitive.
NextCrash ==
    \/ Register
    \/ Remove
    \/ Lifecycle
    \/ Wait
    \/ Continue
    \/ Background
    \/ Observer
    \/ Tick
    \/ NewCaller

CrashSpec == WaitInit /\ [][NextCrash]_vars

\* One task called by two threads at once.
SharedInit == InitWith(Threads, Scenario(1, {2}, 1, 0))

SharedSpec == SharedInit /\ [][Next]_vars

\* The life of one task whose caller compares the progress its polls report.
ProgressInit == InitWith({"t1"}, [Scenario(1, {2}, 1, 0) EXCEPT !.track = TRUE])

ProgressSpec == ProgressInit /\ [][Next]_vars

\* ------------------------------------------------------------------ claims
Has(id) == id \in DOMAIN status

\* A thread is at the match of SleepTask::poll on task id, about to return.
Polling(t) ==
    /\ th[t].pc = "body"
    /\ th[t].op = "poll"
    /\ ~PollPanics(th[t].id, th[t].st)

\* The outcome the poll of thread t returns.
Outcome(t) == PollOutcome(th[t].id, th[t].st)

\* C1: once a task's status is Completed or Cancelled, no step of a caller or
\* of a background operation changes it.
C1_TerminalPermanent ==
    [][\A id \in Ids :
          (Has(id) /\ status[id] \in Terminal) => status'[id] = status[id]]_vars

\* C2: a poll that follows a poll of the same task that returned Completed
\* (Cancelled) returns Completed (Cancelled) too.
C2_PollIdempotent ==
    \A t \in Threads :
        (Polling(t) /\ last.id = th[t].id) =>
            /\ last.ev = "poll_completed" => Outcome(t).kind = "Completed"
            /\ last.ev = "poll_cancelled" => Outcome(t).kind = "Cancelled"

\* C3: the poll that follows, with no call in between, a pause (cancel) of the
\* same task that returned Ok returns Paused (Cancelled).
C3_PauseCancelVisible ==
    \A t \in Threads :
        (Polling(t) /\ last.id = th[t].id) =>
            /\ last.ev = "pause_ok" => Outcome(t).kind = "Paused"
            /\ last.ev = "cancel_ok" => Outcome(t).kind = "Cancelled"

\* C4: no task ever has more than one background operation spawned for it.
C4_SpawnedOnce ==
    \A id \in Ids : Has(id) => Len(bg[id]) <= 1

\* C5: under fair scheduling, a task that becomes Running and is not left
\* Paused forever eventually is Completed or Cancelled.
C5_EventuallyTerminates ==
    \A id \in Ids :
        (<>(Has(id) /\ status[id] = "Running") /\ ~<>[](Has(id) /\ status[id] = "Paused"))
            => <>(Has(id) /\ status[id] \in Terminal)

\* 0.0 <= x <= 1.0 (false for NaN and the infinities)
InUnit(x) == x.den > 0 /\ 0 <= x.num /\ x.num <= x.den

\* C6: the progress of every Pending or Paused outcome a poll returns is
\* between 0.0 and 1.0.
C6_ProgressInUnit ==
    \A t \in Threads :
        (Polling(t) /\ Outcome(t).kind \in {"Pending", "Paused"}) =>
            InUnit(Outcome(t).progress)

\* A poll of a Running or Paused task whose elapsed time over its duration is
\* not a number in the unit interval before it is clamped.
C6_Witness ==
    \E t \in Threads :
        /\ Polling(t)
        /\ Outcome(t).kind \in {"Pending", "Paused"}
        /\ \/ /\ th[t].st = "Running"
              /\ start_time[th[t].id] # None
              /\ ~InUnit(F32Div(now - start_time[th[t].id], duration[th[t].id]))
           \/ /\ th[t].st = "Paused"
              /\ ~InUnit(F32Div(paused_duration[th[t].id], duration[th[t].id]))

\* C7: under fair scheduling, every poll_task call returns, also while an
\* observer of the task is looping.
C7_PollReturns ==
    \A t \in Threads :
        (th[t].op = "poll" /\ th[t].pc # "idle") ~> (th[t].pc \in {"idle", "panicked"})

\* C8: no thread is inside a task's poll while it holds the lock of the
\* registry's map.
C8_MapLockNotHeld ==
    \A t \in Threads :
        (th[t].op = "poll" /\ th[t].pc \in {"read_status", "body"}) => tasks_lock # t

\* C9: an observer that has ended has put exactly one message in its channel,
\* and what the receiver gets is that message, with the task's status terminal.
C9_NotifiedOnce ==
    \A o \in DOMAIN obs :
        /\ obs[o].pc = "done" => obs[o].sent = 1
        /\ obs[o].rx # "waiting" =>
              (obs[o].rx = "message" /\ status[obs[o].id] \in Terminal)

\* C10: the k-th registration is given identity k-1, whatever was removed.
C10_IdentitiesInOrder ==
    \A k \in 1 .. Len(issued) : issued[k] = k - 1

\* Three registrations, the first task removed before the last was made.
C10_Witness ==
    /\ Len(issued) = 3
    /\ 0 \notin tasks
    /\ 1 \in tasks
    /\ \E t \in Threads : th[t].pc = "insert" /\ th[t].id = 2

\* A thread is inside add_task with identity id assigned and not yet inserted.
Inserting(t, id) == th[t].pc = "insert" /\ th[t].id = id

\* C11: under concurrent registration the identities add_task assigned are
\* distinct and are exactly 0 .. N-1, and each of them is a key of the map, with
\* its own task, once its call has returned; no call inserts under a key that
\* is in the map or that another call holds.
C11_RegistrationLinearizable ==
    /\ \A j, k \in 1 .. Len(issued) : j # k => issued[j] # issued[k]
    /\ {issued[k] : k \in 1 .. Len(issued)} = 0 .. (Len(issued) - 1)
    /\ \A k \in 1 .. Len(issued) :
          /\ Has(issued[k])
          /\ issued[k] \in tasks \/ \E t \in Threads : Inserting(t, issued[k])
    /\ \A t \in Threads :
          th[t].pc = "insert" =>
              /\ th[t].id \notin tasks
              /\ \A u \in Threads \ {t} : ~Inserting(u, th[t].id)

\* Two add_task calls in flight at once, and the later identity inserted first.
C11_Witness ==
    /\ 1 \in tasks
    /\ 0 \notin tasks
    /\ \E t \in Threads : Inserting(t, 0)
    /\ \E t \in Threads : Inserting(t, 2)

\* C12: no registry call made with an identity that is not in the map panics
\* (it returns NotFound, which leaves every variable as it was).
C12_UnknownIdNoPanic ==
    [][\A t \in Threads :
          (th[t].pc = "idle" /\ th'[t].pc = "panicked") => th'[t].id \in tasks]_vars

\* Thread t takes the last step of call op, on a task whose status it read.
Returning(t, op) ==
    /\ th[t].pc \in {"body", "pause_bank", "resume_set"}
    /\ th[t].op = op
    /\ th'[t].pc = "idle"

Live == {"Queued", "Running", "Paused"}

\* C13: a cancel that read Queued, Running or Paused returns Ok and sets the
\* status to Cancelled; one that read Completed (Cancelled) returns
\* AlreadyCompleted (AlreadyCancelled) and leaves the status; a task cancelled
\* with no background operation spawned stays Cancelled, gets none spawned, and
\* every poll of it returns Cancelled.
C13_CancelTable ==
    [][/\ \A t \in Threads :
             Returning(t, "cancel") =>
                 LET id == th[t].id
                     st == th[t].st
                 IN  /\ st \in Live =>
                           /\ CancelResult(st).kind = "Ok"
                           /\ last' = [id |-> id, ev |-> "cancel_ok"]
                           /\ status'[id] = "Cancelled"
                     /\ st \notin Live =>
                           /\ CancelResult(st).kind = "Already" \o st
                           /\ last'.ev # "cancel_ok"
                           /\ status'[id] = status[id]
       /\ \A id \in Ids :
             (Has(id) /\ status[id] = "Cancelled" /\ bg[id] = <<>>) =>
                 /\ status'[id] = "Cancelled"
                 /\ bg'[id] = <<>>
                 /\ \A t \in Threads :
                       (Polling(t)' /\ th'[t].id = id) => Outcome(t)'.kind = "Cancelled"
      ]_vars

\* A poll of a task that was cancelled before it ever ran: no background
\* operation was spawned for it.
C13_Witness ==
    \E t \in Threads :
        /\ Polling(t)
        /\ th[t].st = "Cancelled"
        /\ bg[th[t].id] = <<>>
        /\ paused_duration[th[t].id] = 0
        /\ start_time[th[t].id] = None

\* C14: a pause that read Running or Queued returns Ok, with the status set to
\* Paused; one that read Paused, Completed or Cancelled returns AlreadyPaused,
\* AlreadyCompleted or AlreadyCancelled and leaves the status; no pause ends
\* otherwise.
C14_PauseTable ==
    [][\A t \in Threads :
          (th[t].op = "pause" /\ th[t].pc \in {"body", "pause_bank"}) =>
              LET id == th[t].id
                  st == th[t].st
              IN  /\ th'[t].pc # "panicked"
                  /\ Returning(t, "pause") =>
                        /\ st \in {"Queued", "Running"} =>
                              /\ last' = [id |-> id, ev |-> "pause_ok"]
                              /\ status'[id] = "Paused"
                        /\ st \notin {"Queued", "Running"} =>
                              /\ PauseResult(st).kind = "Already" \o st
                              /\ last'.ev # "pause_ok"
                              /\ status'[id] = status[id]
      ]_vars

\* What resume returns on each status other than Paused.
ResumeError(st) ==
    CASE st = "Queued" -> "NotFound"
      [] st = "Running" -> "AlreadyRunning"
      [] st = "Completed" -> "AlreadyCompleted"
      [] st = "Cancelled" -> "AlreadyCancelled"

\* C15: a resume that read Paused sets start_time to the current instant and
\* then the status to Running, and returns Ok; a resume that read any other
\* status returns that status's error and changes neither.
C15_ResumeTable ==
    [][/\ \A t \in Threads :
             (th[t].op = "resume" /\ th[t].pc = "body") =>
                 LET id == th[t].id
                     st == th[t].st
                 IN  /\ th'[t].pc = "resume_set" =>
                           /\ st = "Paused"
                           /\ start_time'[id] = now
                     /\ Returning(t, "resume") =>
                           /\ st # "Paused"
                           /\ ResumeResult(st).kind = ResumeError(st)
                           /\ status'[id] = status[id]
                           /\ start_time'[id] = start_time[id]
       /\ \A u \in Threads :
             (th[u].pc = "resume_set" /\ Returning(u, "resume")) =>
                 /\ ResumeResult(th[u].st).kind = "Ok"
                 /\ status'[th[u].id] = "Running"
                 /\ start_time'[th[u].id] # None
                 /\ start_time'[th[u].id] <= now
      ]_vars

\* A resume of a task paused at an earlier instant is about to return.
C15_Witness ==
    \E t \in Threads :
        /\ th[t].op = "resume"
        /\ th[t].pc = "resume_set"
        /\ status[th[t].id] = "Paused"
        /\ paused_duration[th[t].id] > 0
        /\ start_time[th[t].id] = now
        /\ now > 1

\* No thread is inside a registry call.
Quiet == \A t \in Threads : th[t].pc \in {"idle", "off", "panicked"}

\* C16: the poll of a Queued task returns Pending(0.0); a task that was polled
\* eventually is Completed; and from a state in which it is Completed, every
\* poll made from then on returns Completed.
C16_TimedTaskCompletes ==
    /\ [](\A t \in Threads :
            (Polling(t) /\ th[t].st = "Queued") => Outcome(t) = Pending(Zero))
    /\ \A id \in Ids :
          [](Has(id) /\ bg[id] # <<>> => <>(Has(id) /\ status[id] = "Completed"))
    /\ \A id \in Ids :
          []((Has(id) /\ status[id] = "Completed" /\ Quiet) =>
                [](\A t \in Threads :
                      (Polling(t) /\ th[t].id = id) => Outcome(t).kind = "Completed"))

\* C17: in the pause and resume scenario, with every earlier call having
\* returned what the scenario says, the final poll returns Completed.
C17_ScenarioEndsCompleted ==
    \A t \in Threads :
        (Polling(t) /\ done = Len(TestScript) - 1) => Outcome(t).kind = "Completed"

\* C18: a poll made while the latest call on its task is a pause that returned
\* Ok (no resume or cancel since) returns Paused, with progress
\* paused_duration / duration.
C18_FrozenWhilePaused ==
    \A t \in Threads :
        (Polling(t) /\ last = [id |-> th[t].id, ev |-> "pause_ok"]) =>
            /\ Outcome(t).kind = "Paused"
            /\ Outcome(t).progress =
                  F32Div(paused_duration[th[t].id], duration[th[t].id])

\* Identity id was registered, its add_task has returned, and it is no key of
\* the map: it was removed.
Removed(id) ==
    /\ Has(id)
    /\ id \notin tasks
    /\ \A t \in Threads : ~Inserting(t, id)

CallOn(t) == IF th[t].pc = "idle" THEN th'[t].id ELSE th[t].id

InTask(t) == th[t].pc \in {"read_status", "body", "pause_bank", "resume_set"}

\* C21: at most one caller at a time is inside a method of a task, so no poll
\* reads start_time and paused_duration between the two writes of another
\* caller's pause or resume on that task.
C21_CallsSerialized ==
    /\ \A t \in Threads : InTask(t) => task_lock[th[t].id] = t
    /\ \A t, u \in Threads :
          (t # u /\ InTask(t) /\ InTask(u)) => th[t].id # th[u].id
    /\ \A t, u \in Threads :
          (t # u /\ Polling(t) /\ th[u].pc \in {"pause_bank", "resume_set"}) =>
              th[u].id # th[t].id

\* A poll waits for the task's lock while another caller's pause of that task
\* is between its two writes.
C21_Witness ==
    \E t, u \in Threads :
        /\ th[t].op = "poll"
        /\ th[t].pc = "lock_task"
        /\ th[u].op = "pause"
        /\ th[u].pc = "pause_bank"
        /\ th[u].id = th[t].id
        /\ status[th[u].id] = "Paused"

\* C22: when a poll that read Queued returns, it returns Pending(0.0), a
\* background operation is spawned for the task, the task's status is Running
\* and its start_time is set.
C22_QueuedPollStartsRunning ==
    [][\A t \in Threads :
          (Polling(t) /\ th[t].st = "Queued" /\ th'[t].pc = "idle") =>
              /\ Outcome(t) = Pending(Zero)
              /\ bg'[th[t].id] # <<>>
              /\ status'[th[t].id] = "Running"
              /\ start_time'[th[t].id] # None
      ]_vars

\* C23: a poll that read Running, with the elapsed time (banked time included)
\* over the duration at least 1.0, returns Completed.
C23_FullProgressCompletes ==
    \A t \in Threads :
        ( /\ Polling(t)
          /\ th[t].st = "Running"
          /\ start_time[th[t].id] # None
          /\ F32Ge1(F32Div(ElapsedBanked(th[t].id), duration[th[t].id])) ) =>
            Outcome(t).kind = "Completed"

\* C24: the paused_duration a pause of a Running task stores is the time banked
\* at the pause before it plus the time run since (since the start, or since the
\* latest resume): the sum of all running intervals.
C24_BankIsCumulative ==
    [][\A t \in Threads :
          (th[t].pc = "pause_bank" /\ Returning(t, "pause")) =>
              paused_duration'[th[t].id] =
                  paused_duration[th[t].id] + (now - start_time[th[t].id])
      ]_vars

\* A background operation of task id ends its sleep in this step.
Wakes(id) ==
    \E i \in DOMAIN bg[id] : bg[id][i].pc = "sleep" /\ bg'[id][i].pc = "done"

\* C25: the step in which a background operation ends its sleep changes the
\* status from Running to Completed and leaves every other status (Paused and
\* Cancelled among them), and every other field of the task, as it was.
C25_WakeOnlyCompletesRunning ==
    [][\A id \in Ids :
          (Has(id) /\ Wakes(id)) =>
              /\ status[id] = "Running" => status'[id] = "Completed"
              /\ status[id] # "Running" => status'[id] = status[id]
              /\ start_time'[id] = start_time[id]
              /\ paused_duration'[id] = paused_duration[id]
      ]_vars

\* The timer of a task has fired while the task was paused with time banked.
C25_Witness ==
    /\ Has(0)
    /\ bg[0] # <<>>
    /\ bg[0][1].pc = "done"
    /\ status[0] = "Paused"
    /\ paused_duration[0] > 0

\* The poll of thread t computes a progress: it divides by the task's duration.
Divides(t) ==
    \/ th[t].st = "Paused"
    \/ th[t].st = "Running" /\ start_time[th[t].id] # None

\* C26: a poll of a task whose duration is zero returns Completed, and does not
\* divide by the duration.
C26_ZeroDurationCompletes ==
    \A t \in Threads :
        (Polling(t) /\ duration[th[t].id] = 0) =>
            /\ Outcome(t).kind = "Completed"
            /\ ~Divides(t)

\* C27: a cancel or a pause made after a poll of its task returned Completed,
\* with no call in between, returns AlreadyCompleted.
C27_CompletedMeansCompleted ==
    \A t \in Threads :
        (th[t].pc = "body" /\ last = [id |-> th[t].id, ev |-> "poll_completed"]) =>
            /\ th[t].op = "cancel" => CancelResult(th[t].st).kind = "AlreadyCompleted"
            /\ th[t].op = "pause" => PauseResult(th[t].st).kind = "AlreadyCompleted"

\* C28: when a pause that read Running evaluates start_time.unwrap(),
\* start_time is set: the unwrap does not panic.
C28_PauseFindsStartTime ==
    [][\A t \in Threads :
          (th[t].op = "pause" /\ th[t].pc = "pause_bank" /\ th'[t] # th[t]) =>
              /\ start_time[th[t].id] # None
              /\ th'[t].pc = "idle"
      ]_vars

\* x <= y, for progress values in the unit interval
F32Le(x, y) == x.num * y.den <= y.num * x.den

\* C29: the progress of a Pending or Paused outcome of a poll is at least the
\* progress the latest earlier Pending or Paused outcome of a poll of the same
\* task carried.
C29_ProgressMonotone ==
    \A t \in Threads :
        ( /\ Polling(t)
          /\ Outcome(t).kind \in {"Pending", "Paused"}
          /\ th[t].id \in DOMAIN reported ) =>
            F32Le(reported[th[t].id], Outcome(t).progress)

\* What call op returns when it read status st and does not panic.
LifecycleResult(op, st) ==
    CASE op = "cancel" -> CancelResult(st)
      [] op = "pause" -> PauseResult(st)
      [] op = "resume" -> ResumeResult(st)

TaskErrors ==
    {"NotFound", "AlreadyRunning", "AlreadyPaused", "AlreadyCompleted",
     "AlreadyCancelled"}

\* C30: no step of a cancel, pause or resume call that returns an error (the
\* lookup, the locking, the read of the status, the return of the error)
\* changes the status, start_time or paused_duration of its task; the error is
\* one of NotFound, AlreadyRunning, AlreadyPaused, AlreadyCompleted and
\* AlreadyCancelled.
C30_ErrorChangesNothing ==
    [][\A t \in Threads :
          (th'[t] # th[t] /\ (th[t].op \in Delegated \/ th'[t].op \in Delegated)) =>
              LET id == CallOn(t)
                  op == IF th[t].pc = "idle" THEN th'[t].op ELSE th[t].op
                  r == LifecycleResult(op, th[t].st)
              IN  ( \/ th[t].pc \in {"idle", "lock_task", "read_status"}
                    \/ th[t].pc = "body" /\ r.kind # "Ok" ) =>
                      /\ status'[id] = status[id]
                      /\ start_time'[id] = start_time[id]
                      /\ paused_duration'[id] = paused_duration[id]
                      /\ th[t].pc = "body" =>
                            (r.kind \in TaskErrors /\ th'[t].pc = "idle")
      ]_vars

\* A pause of a task that is Completed, with time banked by an earlier pause,
\* is about to return its error.
C30_Witness ==
    \E t \in Threads :
        /\ th[t].op = "pause"
        /\ th[t].pc = "body"
        /\ th[t].st = "Completed"
        /\ status[th[t].id] = "Completed"
        /\ paused_duration[th[t].id] > 0

====
